---- MODULE Spec2Model ----
(***************************************************************************)
(* Paper-trading simulator (src/script.js, class TradingGame): the         *)
(* portfolio ledger, the price feed adapter, the currency conversion       *)
(* helper and the persistence adapter.                                     *)
(*                                                                         *)
(* Numbers.  Every amount of money in script.js is a JavaScript Number,    *)
(* an IEEE 754 binary64 value.  A Number is modelled here as a sign and a  *)
(* magnitude counted in units of 2^-39, the magnitude written in limbs of  *)
(* 15 bits, least significant first (TLC's integers are 32 bits wide).     *)
(* Every accepted price lies in [15000, 60000] and is therefore a multiple *)
(* of 2^-39; sums, differences and integer multiples of such values are    *)
(* multiples of 2^-39 again, so the arithmetic of the ledger is modelled   *)
(* exactly: the exact result rounded to 53 significant bits, ties to even. *)
(* Numbers below 8192 (exchange rates, dollar quotes, rejected quotes) are *)
(* drawn from the values with at most 39 fractional bits.                  *)
(*                                                                         *)
(* Time.  The clock counts milliseconds from the start of the modelled     *)
(* session and advances by one at each reading (new Date()).               *)
(***************************************************************************)
EXTENDS Integers, Sequences, FiniteSets, TLC

Null == [null |-> TRUE]

(***************************************************************************)
(* Bounds of the model                                                     *)
(***************************************************************************)
MaxTime == 3
MaxInflight == 2
MaxCaughtTime == 2
MaxFeedTime == 1
MaxTrimTime == 2
EarlierTrades == 49

(***************************************************************************)
(* Program constants                                                       *)
(***************************************************************************)
InitialCash == 1000000
SeedPrice == 39000
MinPrice == 15000
MaxPrice == 60000
MinRate == 100
MaxRate == 200
FallbackRate == 150
MaxHistory == 50

(***************************************************************************)
(* IEEE 754 binary64 arithmetic on magnitudes (limb sequences)             *)
(***************************************************************************)
LimbBits == 15
Base == 2 ^ LimbBits
FracBits == 39
SigBits == 53

RECURSIVE Trim(_)
Trim(a) ==
    IF a = <<>> THEN a
    ELSE IF a[Len(a)] = 0 THEN Trim(SubSeq(a, 1, Len(a) - 1)) ELSE a

RECURSIVE MAddC(_, _, _)
MAddC(a, b, c) ==
    IF a = <<>> /\ b = <<>> THEN (IF c = 0 THEN <<>> ELSE <<c>>)
    ELSE LET x == IF a = <<>> THEN 0 ELSE Head(a)
             y == IF b = <<>> THEN 0 ELSE Head(b)
             s == x + y + c
         IN  <<s % Base>> \o MAddC(IF a = <<>> THEN a ELSE Tail(a),
                                   IF b = <<>> THEN b ELSE Tail(b), s \div Base)

MAdd(a, b) == MAddC(a, b, 0)

RECURSIVE MSubB(_, _, _)
MSubB(a, b, c) ==
    IF a = <<>> THEN <<>>
    ELSE LET y == IF b = <<>> THEN 0 ELSE Head(b)
             d == Head(a) - y - c
         IN  <<d % Base>> \o MSubB(Tail(a), IF b = <<>> THEN b ELSE Tail(b),
                                   IF d < 0 THEN 1 ELSE 0)

\* a - b for a >= b
MSub(a, b) == Trim(MSubB(a, b, 0))

RECURSIVE MCmpTop(_, _, _)
MCmpTop(a, b, i) ==
    IF i = 0 THEN 0
    ELSE IF a[i] > b[i] THEN 1
    ELSE IF a[i] < b[i] THEN -1
    ELSE MCmpTop(a, b, i - 1)

MCmp(a, b) ==
    IF Len(a) > Len(b) THEN 1
    ELSE IF Len(a) < Len(b) THEN -1
    ELSE MCmpTop(a, b, Len(a))

RECURSIVE MMulSmallC(_, _, _)
MMulSmallC(a, k, c) ==
    IF a = <<>> THEN (IF c = 0 THEN <<>> ELSE <<c>>)
    ELSE LET s == Head(a) * k + c
         IN  <<s % Base>> \o MMulSmallC(Tail(a), k, s \div Base)

\* a * k for 0 <= k < Base
MMulSmall(a, k) == Trim(MMulSmallC(a, k, 0))

RECURSIVE MMul(_, _)
MMul(a, b) ==
    IF a = <<>> \/ b = <<>> THEN <<>>
    ELSE LET rest == MMul(a, Tail(b))
         IN  MAdd(MMulSmall(a, Head(b)),
                  IF rest = <<>> THEN rest ELSE <<0>> \o rest)

RECURSIVE MDivSmallR(_, _, _)
MDivSmallR(a, d, i) ==
    IF i > Len(a) THEN [q |-> <<>>, r |-> 0]
    ELSE LET hi == MDivSmallR(a, d, i + 1)
             cur == hi.r * Base + a[i]
         IN  [q |-> <<cur \div d>> \o hi.q, r |-> cur % d]

\* quotient and remainder of a by d, 0 < d < Base
MDivSmall(a, d) ==
    LET x == MDivSmallR(a, d, 1) IN [q |-> Trim(x.q), r |-> x.r]

Zeros(n) == [i \in 1..n |-> 0]

ShiftLeft(a, s) ==
    IF a = <<>> THEN a
    ELSE Zeros(s \div LimbBits) \o MMulSmall(a, 2 ^ (s % LimbBits))

ShiftRight(a, s) ==
    LET n == s \div LimbBits
    IN  IF n >= Len(a) THEN <<>>
        ELSE MDivSmall(SubSeq(a, n + 1, Len(a)), 2 ^ (s % LimbBits)).q

BitLen(a) ==
    IF a = <<>> THEN 0
    ELSE LimbBits * (Len(a) - 1)
         + (CHOOSE n \in 1..LimbBits :
                2 ^ (n - 1) <= a[Len(a)] /\ a[Len(a)] < 2 ^ n)

\* the exact magnitude a (plus a nonzero tail below it when sticky) rounded
\* to SigBits significant bits, to nearest, ties to even
RoundSig(a, sticky) ==
    LET s == BitLen(a) - SigBits
    IN  IF s <= 0 THEN a
        ELSE IF s < LimbBits
        THEN \* the discarded bits lie in the lowest limb
             LET low == a[1] % (2 ^ s)
                 half == 2 ^ (s - 1)
                 odd == (a[1] \div (2 ^ s)) % 2 = 1
                 up == low > half \/ (low = half /\ (sticky \/ odd))
                 down == [a EXCEPT ![1] = @ - low]
             IN  IF up THEN MAdd(down, <<2 ^ s>>) ELSE down
        ELSE LET q == ShiftRight(a, s)
                 rem == MSub(a, ShiftLeft(q, s))
                 c == MCmp(rem, ShiftLeft(<<1>>, s - 1))
                 up == c > 0 \/ (c = 0 /\ (sticky \/ q[1] % 2 = 1))
             IN  ShiftLeft(IF up THEN MAdd(q, <<1>>) ELSE q, s)

RECURSIVE MFromNat(_)
MFromNat(n) == IF n = 0 THEN <<>> ELSE <<n % Base>> \o MFromNat(n \div Base)

RECURSIVE MToNat(_)
MToNat(a) == IF a = <<>> THEN 0 ELSE Head(a) + Base * MToNat(Tail(a))

Abs(n) == IF n < 0 THEN -n ELSE n

(***************************************************************************)
(* JavaScript Numbers                                                      *)
(***************************************************************************)
Mk(neg, mag) == [neg |-> neg /\ mag # <<>>, mag |-> mag]

\* the Number of an integer
Int2Num(n) == Mk(n < 0, ShiftLeft(MFromNat(Abs(n)), FracBits))

\* the integer of an integral Number
Num2Int(x) ==
    LET n == MToNat(ShiftRight(x.mag, FracBits)) IN IF x.neg THEN -n ELSE n

\* the Number nearest to k / den: a decimal literal, or the quotient k / den
Dec2Num(k, den) ==
    LET n == ShiftLeft(MFromNat(Abs(k)), FracBits + LimbBits)
        d == MDivSmall(n, den)
    IN  Mk(k < 0, ShiftRight(RoundSig(d.q, d.r # 0), LimbBits))

NumAdd(x, y) ==
    IF x.neg = y.neg THEN Mk(x.neg, RoundSig(MAdd(x.mag, y.mag), FALSE))
    ELSE IF MCmp(x.mag, y.mag) >= 0
         THEN Mk(x.neg, RoundSig(MSub(x.mag, y.mag), FALSE))
         ELSE Mk(y.neg, RoundSig(MSub(y.mag, x.mag), FALSE))

NumSub(x, y) == NumAdd(x, Mk(~y.neg, y.mag))

NumMul(x, y) ==
    Mk(x.neg # y.neg,
       ShiftRight(RoundSig(MMul(x.mag, y.mag), FALSE), FracBits))

\* n * x for an integer n, |n| < Base: the product of the Numbers n and x
NumTimes(n, x) ==
    Mk((n < 0) # x.neg, RoundSig(MMulSmall(x.mag, Abs(n)), FALSE))

NumCmp(x, y) ==
    IF x.neg /\ ~y.neg THEN -1
    ELSE IF ~x.neg /\ y.neg THEN 1
    ELSE IF x.neg THEN MCmp(y.mag, x.mag) ELSE MCmp(x.mag, y.mag)

NumLt(x, y) == NumCmp(x, y) < 0
NumGt(x, y) == NumCmp(x, y) > 0
NumLe(x, y) == NumCmp(x, y) <= 0
NumGe(x, y) == NumCmp(x, y) >= 0

Zero == Int2Num(0)
InitialCashNum == Int2Num(InitialCash)
SeedPriceNum == Int2Num(SeedPrice)

\* Math.round(x) for x >= 0
MathRound(x) ==
    MToNat(ShiftRight(MAdd(x.mag, ShiftLeft(<<1>>, FracBits - 1)), FracBits))

\* a value is truthy unless it is null or the Number 0
Truthy(x) == x # Null /\ x # Zero

(***************************************************************************)
(* Responses of the quote service (chart endpoint), as the code reads them *)
(***************************************************************************)
\* net: fetch() resolves; ok: response.ok; json: response.json() resolves;
\* result: data.chart.result[0] is present; meta: result.meta is an object;
\* rmp: meta.regularMarketPrice (a Number or Null); indicators: the close
\* series indicators.quote[0].close is present; close: that series;
\* currency: meta.currency
Chart(rmp, indicators, close, currency) ==
    [net |-> TRUE, ok |-> TRUE, json |-> TRUE, result |-> TRUE, meta |-> TRUE,
     rmp |-> rmp, indicators |-> indicators, close |-> close,
     currency |-> currency]

Broken(net, ok, json, result, meta) ==
    [net |-> net, ok |-> ok, json |-> json, result |-> result, meta |-> meta,
     rmp |-> Null, indicators |-> FALSE, close |-> <<>>, currency |-> "JPY"]

NetworkFailure == Broken(FALSE, FALSE, FALSE, FALSE, FALSE)
HttpError == Broken(TRUE, FALSE, FALSE, FALSE, FALSE)
BadJson == Broken(TRUE, TRUE, FALSE, FALSE, FALSE)
NoResult == Broken(TRUE, TRUE, TRUE, FALSE, FALSE)
NoMeta == Broken(TRUE, TRUE, TRUE, TRUE, FALSE)

Failures == {NetworkFailure, HttpError, BadJson, NoResult, NoMeta}

\* quotes as the decimal literals of the response body, in thousandths
Lit(k) == Dec2Num(k, 1000)

QuoteResponses ==
    Failures \cup
    { Chart(Lit(20000000), FALSE, <<>>, "JPY"),
      Chart(Lit(43344837), FALSE, <<>>, "JPY"),
      Chart(Lit(15000000), TRUE, <<Lit(1000)>>, "JPY"),
      Chart(Lit(60000000), FALSE, <<>>, "JPY"),
      Chart(Lit(14999999), FALSE, <<>>, "JPY"),
      Chart(Lit(60000001), FALSE, <<>>, "JPY"),
      Chart(Lit(70000000), FALSE, <<>>, "JPY"),
      Chart(Lit(500), FALSE, <<>>, "JPY"),
      Chart(Lit(-20000000), TRUE, <<Lit(20000000)>>, "JPY"),
      Chart(Null, TRUE, <<Lit(39000000), Lit(20000000)>>, "JPY"),
      Chart(Null, TRUE, <<Lit(20000000), Null>>, "JPY"),
      Chart(Zero, TRUE, <<>>, "JPY"),
      Chart(Null, FALSE, <<>>, "JPY"),
      Chart(Lit(20000000), FALSE, <<>>, "EUR"),
      Chart(Lit(260000), FALSE, <<>>, "USD"),
      Chart(Lit(160000), FALSE, <<>>, "USD"),
      Chart(Lit(500000), FALSE, <<>>, "USD") }

FxResponses ==
    Failures \cup
    { Chart(Lit(150000), FALSE, <<>>, "JPY"),
      Chart(Lit(125000), FALSE, <<>>, "JPY"),
      Chart(Lit(100000), FALSE, <<>>, "JPY"),
      Chart(Lit(200000), FALSE, <<>>, "JPY"),
      Chart(Lit(99500), FALSE, <<>>, "JPY"),
      Chart(Lit(200500), FALSE, <<>>, "JPY"),
      Chart(Null, TRUE, <<Lit(125000)>>, "JPY"),
      Chart(Zero, TRUE, <<Null>>, "JPY"),
      Chart(Lit(-125000), FALSE, <<>>, "JPY") }

\* what the requests of one price fetch are answered with; the exchange rate
\* is requested for a dollar quote only, fx is NetworkFailure where it is not
Responses ==
    { r \in [quote : QuoteResponses, fx : FxResponses] :
        r.quote.currency = "USD" \/ r.fx = NetworkFailure }

(***************************************************************************)
(* Currency Conversion Helper and Price Feed Adapter                       *)
(***************************************************************************)
\* regularMarketPrice, or the last close when it is missing or 0
ExtractQuote(r) ==
    IF ~Truthy(r.rmp) /\ r.indicators /\ Len(r.close) > 0
    THEN r.close[Len(r.close)]
    ELSE r.rmp

\* quote && !isNaN(quote) && quote > 0
UsableQuote(q) == Truthy(q) /\ NumGt(q, Zero)

\* variant: the upper end of the rate band is not checked
RateInBand_LowOnly(rate) == NumGe(rate, Int2Num(MinRate))

RateInBand(rate) ==
    NumGe(rate, Int2Num(MinRate)) /\ NumLe(rate, Int2Num(MaxRate))

fetchUsdJpyRate(fx) ==
    IF ~fx.net \/ ~fx.ok \/ ~fx.json THEN Int2Num(FallbackRate)
    ELSE IF fx.result /\ ~fx.meta THEN Int2Num(FallbackRate)
    ELSE IF fx.result /\ UsableQuote(ExtractQuote(fx))
            /\ RateInBand(ExtractQuote(fx))
         THEN ExtractQuote(fx)
         ELSE Int2Num(FallbackRate)

\* variant: the upper end of the band is not checked
PriceOutOfRange_LowOnly(p) == NumLt(p, Int2Num(MinPrice))

PriceOutOfRange(p) ==
    NumLt(p, Int2Num(MinPrice)) \/ NumGt(p, Int2Num(MaxPrice))

\* the quote normalized to yen
PriceInJPY(quote, currency, fx) ==
    IF currency = "USD" THEN NumMul(quote, fetchUsdJpyRate(fx)) ELSE quote

\* Math.round(priceInJPY * 100) / 100
RoundPrice(p) == Dec2Num(MathRound(NumTimes(100, p)), 100)

\* the validated price, or Null for no update
fetchFromYahoo(r) ==
    LET q == r.quote IN
    IF ~q.net \/ ~q.ok \/ ~q.json THEN Null
    ELSE IF ~q.result THEN Null
    ELSE IF ~q.meta THEN Null
    ELSE IF ~UsableQuote(ExtractQuote(q)) THEN Null
    ELSE LET priceInJPY == PriceInJPY(ExtractQuote(q), q.currency, r.fx)
         IN  IF PriceOutOfRange(priceInJPY) THEN Null
             ELSE RoundPrice(priceInJPY)

\* the adapter's answer to each response
Feed == [r \in Responses |-> fetchFromYahoo(r)]

(***************************************************************************)
(* Text                                                                    *)
(***************************************************************************)
DigitChars == <<"0", "1", "2", "3", "4", "5", "6", "7", "8", "9">>

IsDigit(c) == \E d \in 1..10 : DigitChars[d] = c

DigitVal(c) == (CHOOSE d \in 1..10 : DigitChars[d] = c) - 1

RECURSIVE LeadingDigits(_, _, _)
\* the value of the longest prefix of digits of s from position i on, and
\* whether it has a digit at all
LeadingDigits(s, i, acc) ==
    IF i <= Len(s) /\ IsDigit(s[i])
    THEN LeadingDigits(s, i + 1, [n |-> 10 * acc.n + DigitVal(s[i]), any |-> TRUE])
    ELSE acc

\* parseInt(text): an optional sign, then digits; NaN without a digit
parseInt(s) ==
    LET neg == s # <<>> /\ s[1] = "-"
        d == LeadingDigits(s, IF neg THEN 2 ELSE 1, [n |-> 0, any |-> FALSE])
    IN  [nan |-> ~d.any, n |-> IF neg THEN -d.n ELSE d.n]

\* parseInt(this.elements.tradeAmount.value) || 0
TradeAmount(s) == IF parseInt(s).nan THEN 0 ELSE parseInt(s).n

RECURSIVE DigitsOf(_)
DigitsOf(n) ==
    IF n < 10 THEN <<DigitChars[n + 1]>>
    ELSE DigitsOf(n \div 10) \o <<DigitChars[(n % 10) + 1]>>

\* a Date object of the time value t
Date(t) == [time |-> t]

\* Date.prototype.toJSON: the time value written out as text
toJSON(d) == (IF d.time < 0 THEN <<"-">> ELSE <<>>) \o DigitsOf(Abs(d.time))

\* a Date object without a time value (Invalid Date)
InvalidDate == [invalid |-> TRUE]

\* new Date(text): the time value read back from the text
ParseDate(s) == IF parseInt(s).nan THEN InvalidDate ELSE Date(parseInt(s).n)

(***************************************************************************)
(* The game object with its environment                                    *)
(***************************************************************************)
\* JSON values: numbers, strings, null, arrays, objects
JNum(x) == [num |-> x]
JStr(s) == [str |-> s]
JArr(s) == [arr |-> s]
JObj(o) == [obj |-> o]

\* undefined: what reading a property that is not there gives
Undefined == [undefined |-> TRUE]

IsNum(j) == "num" \in DOMAIN j
IsStr(j) == "str" \in DOMAIN j
IsArr(j) == "arr" \in DOMAIN j
IsObj(j) == "obj" \in DOMAIN j

\* the truthiness of a JSON value: 0, "", null and undefined are falsy
JTruthy(j) ==
    IF IsNum(j) THEN Truthy(j.num)
    ELSE IF IsStr(j) THEN j.str # <<>>
    ELSE j # Null /\ j # Undefined

\* new Date(value) for a JSON value
NewDate(j) ==
    IF IsStr(j) THEN ParseDate(j.str)
    ELSE IF IsNum(j) THEN Date(Num2Int(j.num))
    ELSE IF j = Null THEN Date(0)
    ELSE InvalidDate

NoOp == [op |-> "start", arg |-> 0, outcome |-> "ok",
         cash0 |-> Zero, shares0 |-> 0, ret |-> Null, resp |-> Null]

\* the record of the handler that ran last: its input, its answer (the alert
\* it raised or "ok") and the balance it found; for a resumed fetch also what
\* fetchFromYahoo returned and, where the run keeps it, the response
Note(g0, g, op, arg, outcome) ==
    [g EXCEPT !.last = [op |-> op, arg |-> arg, outcome |-> outcome,
                        cash0 |-> g0.cashBalance, shares0 |-> g0.shares,
                        ret |-> Null, resp |-> Null]]

Returned(g, price) == [g EXCEPT !.last.ret = price]

Heard(g, r) == [g EXCEPT !.last.resp = r]

\* new Date(): the clock is read
Tick(g) == [g EXCEPT !.now = @ + 1]

(***************************************************************************)
(* Persistence Adapter                                                     *)
(***************************************************************************)
TxToJSON(tx) ==
    JObj([type |-> JStr(tx.type), amount |-> JNum(Int2Num(tx.amount)),
          price |-> JNum(tx.price), total |-> JNum(tx.total),
          timestamp |-> JStr(toJSON(tx.timestamp))])

\* JSON.stringify(state)
Stringify(g) ==
    JObj([cashBalance |-> JNum(g.cashBalance),
          shares |-> JNum(Int2Num(g.shares)),
          transactionHistory |->
              JArr([i \in 1..Len(g.transactionHistory) |->
                        TxToJSON(g.transactionHistory[i])]),
          currentPrice |-> JNum(g.currentPrice),
          previousPrice |-> JNum(g.previousPrice),
          lastUpdate |-> IF g.lastUpdate = Null THEN Null
                         ELSE JStr(toJSON(g.lastUpdate))])

saveState(g) == [g EXCEPT !.storage = Stringify(g)]

\* stored text that JSON.parse rejects, and the stored text null
Garbled == [garbled |-> TRUE]
NullText == [nulltext |-> TRUE]

\* a field that loadState did not assign
Kept == [kept |-> TRUE]

\* state.name, for the value that JSON.parse returned
Prop(state, name) == IF IsObj(state) THEN state.obj[name] ELSE Undefined

\* value || fallback
OrDefault(j, fallback) == IF JTruthy(j) THEN j ELSE fallback

\* tx.timestamp throws for an entry that is null
EntryThrows(j) == j = Null \/ j = Undefined

\* {...tx, timestamp: new Date(tx.timestamp)}
ReviveTx(j) ==
    IF IsObj(j)
    THEN JObj([j.obj EXCEPT !.timestamp = NewDate(@)])
    ELSE JObj([type |-> Undefined, amount |-> Undefined, price |-> Undefined,
               total |-> Undefined, timestamp |-> InvalidDate])

\* the assignments that run before the try block is left
NothingLoaded ==
    [cashBalance |-> Kept, shares |-> Kept, transactionHistory |-> Kept,
     currentPrice |-> Kept, previousPrice |-> Kept, lastUpdate |-> Kept,
     caught |-> FALSE]

\* what loadState assigns to each field, as JSON values, and whether its
\* catch block ran
Loaded(stored) ==
    IF stored = Null THEN NothingLoaded
    ELSE IF stored = Garbled \/ stored = NullText
    THEN [NothingLoaded EXCEPT !.caught = TRUE]
    ELSE LET log == OrDefault(Prop(stored, "transactionHistory"), JArr(<<>>))
             throws == ~IsArr(log)
                       \/ \E i \in 1..Len(log.arr) : EntryThrows(log.arr[i])
         IN  [cashBalance |->
                  OrDefault(Prop(stored, "cashBalance"), JNum(InitialCashNum)),
              shares |-> OrDefault(Prop(stored, "shares"), JNum(Zero)),
              transactionHistory |->
                  IF throws THEN log
                  ELSE JArr([i \in 1..Len(log.arr) |-> ReviveTx(log.arr[i])]),
              currentPrice |->
                  OrDefault(Prop(stored, "currentPrice"), JNum(Zero)),
              previousPrice |->
                  OrDefault(Prop(stored, "previousPrice"), JNum(Zero)),
              lastUpdate |->
                  IF JTruthy(Prop(stored, "lastUpdate"))
                  THEN NewDate(Prop(stored, "lastUpdate"))
                  ELSE Kept,
              caught |-> throws]

\* a log entry as the ledger holds it
IsEntry(j) ==
    /\ IsObj(j)
    /\ IsStr(j.obj.type) /\ IsNum(j.obj.amount)
    /\ IsNum(j.obj.price) /\ IsNum(j.obj.total)

Entry(j) ==
    IF IsEntry(j)
    THEN [type |-> j.obj.type.str, amount |-> Num2Int(j.obj.amount.num),
          price |-> j.obj.price.num, total |-> j.obj.total.num,
          timestamp |-> j.obj.timestamp]
    ELSE j

\* the fields as the game object holds them: a Number, a count, a sequence of
\* entries; any other value as it was read
NumField(j, old) == IF j = Kept THEN old ELSE IF IsNum(j) THEN j.num ELSE j

CountField(j, old) ==
    IF j = Kept THEN old ELSE IF IsNum(j) THEN Num2Int(j.num) ELSE j

LogField(j, old) ==
    IF j = Kept THEN old
    ELSE IF IsArr(j) THEN [i \in 1..Len(j.arr) |-> Entry(j.arr[i])]
    ELSE j

loadState(g) ==
    LET state == Loaded(g.storage)
    IN  [g EXCEPT
           !.cashBalance = NumField(state.cashBalance, @),
           !.shares = CountField(state.shares, @),
           !.transactionHistory = LogField(state.transactionHistory, @),
           !.currentPrice = NumField(state.currentPrice, @),
           !.previousPrice = NumField(state.previousPrice, @),
           !.lastUpdate = IF state.lastUpdate = Kept THEN @
                          ELSE state.lastUpdate]

(***************************************************************************)
(* Portfolio Ledger                                                        *)
(***************************************************************************)
\* variant: a quantity of 0 is let through
InvalidQuantity_Negative(amount) == amount < 0

InvalidQuantity(amount) == amount <= 0

PriceUnavailable(price) == price = Zero

\* variant: an order that takes the whole balance is turned down
InsufficientFunds_Strict(cost, cash) == NumGe(cost, cash)

InsufficientFunds(cost, cash) == NumGt(cost, cash)

\* variant: one share more than held may be sold
InsufficientShares_OffByOne(amount, held) == amount > held + 1

\* variant: the last share held cannot be sold
InsufficientShares_Strict(amount, held) == amount >= held

InsufficientShares(amount, held) == amount > held

\* amount * this.currentPrice
OrderValue(amount, price) == NumTimes(amount, price)

\* variant: the trim keeps the oldest entries
TrimHistory_KeepOldest(h) ==
    IF Len(h) > MaxHistory THEN SubSeq(h, Len(h) - MaxHistory + 1, Len(h)) ELSE h

TrimHistory(h) == IF Len(h) > MaxHistory THEN SubSeq(h, 1, MaxHistory) ELSE h

\* variant: the entry records the price before the last update
addTransaction_PreviousPrice(g, type, amount, price) ==
    LET t == Tick(g)
        tx == [type |-> type, amount |-> amount, price |-> g.previousPrice,
               total |-> OrderValue(amount, g.previousPrice),
               timestamp |-> Date(t.now)]
    IN  [t EXCEPT !.transactionHistory = TrimHistory(<<tx>> \o @)]

addTransaction(g, type, amount, price) ==
    LET t == Tick(g)
        tx == [type |-> type, amount |-> amount, price |-> price,
               total |-> OrderValue(amount, price), timestamp |-> Date(t.now)]
    IN  [t EXCEPT !.transactionHistory = TrimHistory(<<tx>> \o @)]

buy(g, text) ==
    LET amount == TradeAmount(text)
        cost == OrderValue(amount, g.currentPrice)
    IN  IF InvalidQuantity(amount)
        THEN Note(g, g, "buy", amount, "InvalidQuantity")
        ELSE IF PriceUnavailable(g.currentPrice)
        THEN Note(g, g, "buy", amount, "PriceUnavailable")
        ELSE IF InsufficientFunds(cost, g.cashBalance)
        THEN Note(g, g, "buy", amount, "InsufficientFunds")
        ELSE LET paid == [g EXCEPT !.cashBalance = NumSub(@, cost),
                                   !.shares = @ + amount]
             IN  Note(g, saveState(addTransaction(paid, "buy", amount,
                                                  paid.currentPrice)),
                      "buy", amount, "ok")

sell(g, text) ==
    LET amount == TradeAmount(text)
        revenue == OrderValue(amount, g.currentPrice)
    IN  IF InvalidQuantity(amount)
        THEN Note(g, g, "sell", amount, "InvalidQuantity")
        ELSE IF PriceUnavailable(g.currentPrice)
        THEN Note(g, g, "sell", amount, "PriceUnavailable")
        ELSE IF InsufficientShares(amount, g.shares)
        THEN Note(g, g, "sell", amount, "InsufficientShares")
        ELSE LET paid == [g EXCEPT !.cashBalance = NumAdd(@, revenue),
                                   !.shares = @ - amount]
             IN  Note(g, saveState(addTransaction(paid, "sell", amount,
                                                  paid.currentPrice)),
                      "sell", amount, "ok")

\* variant: the reset forgets the shares
ResetFields_KeepShares(g) ==
    [g EXCEPT !.cashBalance = InitialCashNum, !.transactionHistory = <<>>]

\* variant: the reset clears the price as well
ResetFields_ClearPrice(g) ==
    [g EXCEPT !.cashBalance = InitialCashNum, !.shares = 0,
              !.transactionHistory = <<>>, !.currentPrice = Zero,
              !.previousPrice = Zero, !.lastUpdate = Null]

\* the three assignments of a confirmed reset
ResetFields(g) ==
    [g EXCEPT !.cashBalance = InitialCashNum, !.shares = 0,
              !.transactionHistory = <<>>]

reset(g, confirmed) ==
    IF ~confirmed THEN Note(g, g, "reset", 0, "declined")
    ELSE Note(g, saveState(ResetFields(g)), "reset", 0, "confirmed")

\* price && price > 0
PriceAccepted(price) == Truthy(price) /\ NumGt(price, Zero)

\* variant: the price before is forgotten
PreviousOf_Price(current, price) == price

\* this.currentPrice || price
PreviousOf(current, price) == IF Truthy(current) THEN current ELSE price

\* variant: a price is dropped while another fetch is in flight
ApplyPrice_WhenAlone(g, price) == IF g.inflight > 0 THEN g ELSE
    LET t == Tick(g)
    IN  [t EXCEPT !.previousPrice = PreviousOf(g.currentPrice, price),
                  !.currentPrice = price,
                  !.lastUpdate = Date(t.now)]

ApplyPrice(g, price) ==
    LET t == Tick(g)
    IN  [t EXCEPT !.previousPrice = PreviousOf(g.currentPrice, price),
                  !.currentPrice = price,
                  !.lastUpdate = Date(t.now)]

\* variant: no failed fetch seeds the price
SeedNever(g) == g

\* variant: every failed fetch seeds the price
SeedAlways(g) ==
    [g EXCEPT !.currentPrice = SeedPriceNum, !.previousPrice = SeedPriceNum]

SeedIfFirst(g) ==
    IF g.currentPrice = Zero
    THEN [g EXCEPT !.currentPrice = SeedPriceNum,
                   !.previousPrice = SeedPriceNum]
    ELSE g

\* fetchPrice up to its await: one more fetch is in flight
fetchPriceStart(g) ==
    Note(g, [g EXCEPT !.inflight = @ + 1], "fetchStart", 0, "ok")

\* fetchPrice from its await on, the feed having answered r
fetchPriceResume(g, r) ==
    LET price == Feed[r]
        h == [g EXCEPT !.inflight = @ - 1]
    IN  Returned(IF PriceAccepted(price)
                 THEN Note(g, saveState(ApplyPrice(h, price)), "fetch", 0,
                           "validated")
                 ELSE Note(g, SeedIfFirst(h), "fetch", 0,
                           IF g.currentPrice = Zero THEN "seed" ELSE "noupdate"),
                 price)

\* variant: the catch block puts the ledger back to its start
fetchPriceCatch_Reset(g) == ResetFields(SeedIfFirst(g))

\* the catch block of fetchPrice
fetchPriceCatch(g) == SeedIfFirst(g)

\* fetchPrice from its await on, the feed having answered r, when the display
\* or the storage throws at the end of the branch taken: the catch block runs
fetchPriceCaught(g, r) ==
    LET price == Feed[r]
        h == [g EXCEPT !.inflight = @ - 1]
    IN  Returned(Note(g, fetchPriceCatch(IF PriceAccepted(price)
                                         THEN ApplyPrice(h, price)
                                         ELSE SeedIfFirst(h)),
                      "fetch", 0, "caught"),
                 price)

\* the field initializers of the constructor
Fresh(stored, clock) ==
    [currentPrice |-> Zero, previousPrice |-> Zero,
     cashBalance |-> InitialCashNum, shares |-> 0,
     transactionHistory |-> <<>>, lastUpdate |-> Null,
     storage |-> stored, now |-> clock, inflight |-> 0, last |-> NoOp]

\* new TradingGame(): the defaults, the stored state, the first fetch
constructor(stored, clock) ==
    [fetchPriceStart(loadState(Fresh(stored, clock))) EXCEPT !.last = NoOp]

(***************************************************************************)
(* State                                                                   *)
(***************************************************************************)
VARIABLES
    currentPrice,        \* this.currentPrice
    previousPrice,       \* this.previousPrice
    cashBalance,         \* this.cashBalance
    shares,              \* this.shares
    transactionHistory,  \* this.transactionHistory, newest first
    lastUpdate,          \* this.lastUpdate: a Date or Null
    storage,             \* localStorage['tradingGameState']: JSON or Null
    now,                 \* the clock
    inflight,            \* calls of fetchPrice suspended at their await
    last                 \* the handler that ran last

vars == <<currentPrice, previousPrice, cashBalance, shares,
          transactionHistory, lastUpdate, storage, now, inflight, last>>

Game ==
    [currentPrice |-> currentPrice, previousPrice |-> previousPrice,
     cashBalance |-> cashBalance, shares |-> shares,
     transactionHistory |-> transactionHistory, lastUpdate |-> lastUpdate,
     storage |-> storage, now |-> now, inflight |-> inflight, last |-> last]

Becomes(g) ==
    /\ currentPrice' = g.currentPrice
    /\ previousPrice' = g.previousPrice
    /\ cashBalance' = g.cashBalance
    /\ shares' = g.shares
    /\ transactionHistory' = g.transactionHistory
    /\ lastUpdate' = g.lastUpdate
    /\ storage' = g.storage
    /\ now' = g.now
    /\ inflight' = g.inflight
    /\ last' = g.last

Is(g) ==
    /\ currentPrice = g.currentPrice
    /\ previousPrice = g.previousPrice
    /\ cashBalance = g.cashBalance
    /\ shares = g.shares
    /\ transactionHistory = g.transactionHistory
    /\ lastUpdate = g.lastUpdate
    /\ storage = g.storage
    /\ now = g.now
    /\ inflight = g.inflight
    /\ last = g.last

(***************************************************************************)
(* Inputs                                                                  *)
(***************************************************************************)
\* what the quantity field holds when a button is pressed
TradeInputs ==
    { <<"a", "b", "c">>, <<"-", "1">>, <<"1">>, <<"2">>, <<"5", "0">> }

JpyQuote(k) == Chart(Lit(k), FALSE, <<>>, "JPY")
UsdQuote(k) == Chart(Lit(k), FALSE, <<>>, "USD")

\* the answers of the feed that the trading session is run against
SessionResponses ==
    { [quote |-> NetworkFailure, fx |-> NetworkFailure],
      [quote |-> JpyQuote(70000000), fx |-> NetworkFailure],
      [quote |-> JpyQuote(20000000), fx |-> NetworkFailure],
      [quote |-> JpyQuote(43344837), fx |-> NetworkFailure],
      [quote |-> UsdQuote(160000), fx |-> JpyQuote(125000)] }

(***************************************************************************)
(* Operations                                                              *)
(***************************************************************************)
Init == Is(constructor(Null, 0))

\* click on the buy button
Buy(text, limit) ==
    \E g \in {buy(Game, text)} : g.now <= limit /\ Becomes(g)

\* click on the sell button
Sell(text, limit) ==
    \E g \in {sell(Game, text)} : g.now <= limit /\ Becomes(g)

\* click on the reset button, the dialog answered
Reset(confirmed) == \E g \in {reset(Game, confirmed)} : Becomes(g)

\* the 60 s timer fires, or a click on the refresh button
FetchStart ==
    /\ inflight < MaxInflight
    /\ \E g \in {fetchPriceStart(Game)} : Becomes(g)

\* a suspended fetchPrice resumes with the answer of the feed
FetchComplete(r, limit) ==
    /\ inflight > 0
    /\ \E g \in {fetchPriceResume(Game, r)} : g.now <= limit /\ Becomes(g)

\* the page is closed and loaded again: a new game object over the same storage
Reload ==
    /\ \E g \in {constructor(storage, now)} : Becomes(g)

\* the session, the clock read at most limit times
Session(limit) ==
    \/ \E text \in TradeInputs : Buy(text, limit)
    \/ \E text \in TradeInputs : Sell(text, limit)
    \/ \E confirmed \in BOOLEAN : Reset(confirmed)
    \/ FetchStart
    \/ \E r \in SessionResponses : FetchComplete(r, limit)
    \/ Reload

Next == Session(MaxTime)

Spec == Init /\ [][Next]_vars

(***************************************************************************)
(* The feed alone: a session without orders, each response kept            *)
(***************************************************************************)
FetchHeard(r) ==
    /\ inflight > 0
    /\ \E g \in {Heard(fetchPriceResume(Game, r), r)} :
           g.now <= MaxFeedTime /\ Becomes(g)

NextFeed ==
    \/ FetchStart
    \/ \E r \in Responses : FetchHeard(r)

SpecFeed == Init /\ [][NextFeed]_vars

(***************************************************************************)
(* A session over the storage that an earlier session of trades left       *)
(***************************************************************************)
RECURSIVE Trades(_, _)
\* n orders of one share, bought and sold in turn
Trades(g, n) ==
    IF n = 0 THEN g
    ELSE Trades(IF g.shares = 0 THEN buy(g, <<"1">>) ELSE sell(g, <<"1">>),
                n - 1)

\* the earlier session: started on empty storage, its first fetch failed
EarlierStart ==
    fetchPriceResume(constructor(Null, -EarlierTrades),
                     [quote |-> NetworkFailure, fx |-> NetworkFailure])

\* the first orders of the earlier session
EarlierHalf == Trades(EarlierStart, EarlierTrades \div 2)

Earlier == Trades(EarlierHalf, EarlierTrades - EarlierTrades \div 2)

InitTrim == Is(constructor(Earlier.storage, 0))

NextTrim == Session(MaxTrimTime)

SpecTrim == InitTrim /\ [][NextTrim]_vars

(***************************************************************************)
(* The session with a display or storage that may throw inside fetchPrice  *)
(***************************************************************************)
\* a suspended fetchPrice resumes and its try block throws
FetchThrown(r, limit) ==
    /\ inflight > 0
    /\ \E g \in {fetchPriceCaught(Game, r)} : g.now <= limit /\ Becomes(g)

NextCaught ==
    \/ Session(MaxCaughtTime)
    \/ \E r \in SessionResponses : FetchThrown(r, MaxCaughtTime)

SpecCaught == Init /\ [][NextCaught]_vars

(***************************************************************************)
(* The stored state alone: a new game object loads what it finds           *)
(***************************************************************************)
\* a log entry as saveState writes it, and one without a timestamp
StoredTx(timestamp) ==
    JObj([type |-> JStr("buy"), amount |-> JNum(Int2Num(1)),
          price |-> JNum(SeedPriceNum), total |-> JNum(SeedPriceNum),
          timestamp |-> timestamp])

StoredCash ==
    {Undefined, Null, JNum(Zero), JNum(Int2Num(500000)), JStr(<<"a">>)}

StoredShares == {Undefined, JNum(Zero), JNum(Int2Num(5)), JStr(<<"5">>)}

StoredLogs ==
    {Undefined, JArr(<<>>), JArr(<<StoredTx(JStr(<<"1">>))>>),
     JArr(<<StoredTx(Undefined)>>), JArr(<<StoredTx(JStr(<<"1">>)), Null>>),
     JNum(Int2Num(5)), JStr(<<"a">>)}

StoredPrices == {Undefined, JNum(SeedPriceNum)}

StoredDates == {Null, JStr(<<"1">>), JStr(<<"x">>)}

\* what localStorage may hold under the key when the page is loaded
StoredBlobs ==
    {Null, Garbled, NullText, JNum(Int2Num(5))} \cup
    { JObj(o) : o \in [cashBalance : StoredCash, shares : StoredShares,
                       transactionHistory : StoredLogs,
                       currentPrice : StoredPrices,
                       previousPrice : StoredPrices,
                       lastUpdate : StoredDates] }

\* line 12 of the constructor, what it assigned kept as JSON values
loadStateNoted(g) ==
    LET state == Loaded(g.storage)
    IN  Returned(Note(g, loadState(g), "load", 0,
                      IF state.caught THEN "caught" ELSE "ok"),
                 state)

InitLoad == \E stored \in StoredBlobs : Is(Fresh(stored, 0))

\* the constructor calls loadState
LoadStored ==
    /\ last.op = "start"
    /\ \E g \in {loadStateNoted(Game)} : Becomes(g)

NextLoad == LoadStored

SpecLoad == InitLoad /\ [][NextLoad]_vars

(***************************************************************************)
(* Properties                                                              *)
(***************************************************************************)
Executed(l, op) == l.op = op /\ l.outcome = "ok"

\* C1: in every reachable state the cash balance and the number of shares
\* are non-negative.
C1_NonNegative == NumGe(cashBalance, Zero) /\ shares >= 0

\* a buy has spent the whole balance
C1_Witness == Executed(last, "buy") /\ cashBalance = Zero

C2_Step ==
    (last'.op = "buy" /\ last'.arg > 0 /\ currentPrice # Zero) =>
        LET cost == OrderValue(last'.arg, currentPrice)
        IN  IF NumLe(cost, cashBalance)
            THEN /\ last'.outcome = "ok"
                 /\ cashBalance' = NumSub(cashBalance, cost)
                 /\ shares' = shares + last'.arg
                 /\ Len(transactionHistory') > 0
                 /\ transactionHistory'[1].type = "buy"
                 /\ transactionHistory'[1].amount = last'.arg
            ELSE /\ last'.outcome = "InsufficientFunds"
                 /\ UNCHANGED <<cashBalance, shares, transactionHistory, storage>>

\* C2: with a price present, buy(q) for q > 0 executes (cash debited by
\* q * currentPrice, shares credited by q, a buy logged) exactly if
\* q * currentPrice <= cashBalance; otherwise it answers InsufficientFunds and
\* cash, shares, log and stored state stay as they are.
C2_BuyIffFunds == [][C2_Step]_vars

\* a buy was turned down for lack of funds
C2_Witness ==
    /\ last.op = "buy"
    /\ last.outcome = "InsufficientFunds"
    /\ currentPrice = SeedPriceNum
    /\ cashBalance = InitialCashNum

C3_Step ==
    (last'.op = "sell" /\ last'.arg > 0 /\ currentPrice # Zero) =>
        IF last'.arg <= shares
        THEN /\ last'.outcome = "ok"
             /\ cashBalance' = NumAdd(cashBalance,
                                      OrderValue(last'.arg, currentPrice))
             /\ shares' = shares - last'.arg
             /\ Len(transactionHistory') > 0
             /\ transactionHistory'[1].type = "sell"
             /\ transactionHistory'[1].amount = last'.arg
        ELSE /\ last'.outcome = "InsufficientShares"
             /\ UNCHANGED <<cashBalance, shares, transactionHistory, storage>>

\* C3: with a price present, sell(q) for q > 0 executes (cash credited by
\* q * currentPrice, shares debited by q, a sell logged) exactly if
\* q <= shares; otherwise it answers InsufficientShares and cash, shares, log
\* and stored state stay as they are.
C3_SellIffShares == [][C3_Step]_vars

\* a sell of more shares than held was turned down
C3_Witness == last.op = "sell" /\ last.outcome = "InsufficientShares" /\ shares > 0

RoundTrip(g, text) ==
    LET bought == buy(g, text)
        sold == sell(bought, text)
    IN  Executed(bought.last, "buy") =>
            /\ Executed(sold.last, "sell")
            /\ sold.cashBalance = g.cashBalance
            /\ sold.shares = g.shares

\* C4: in every reachable state and for every quantity, a buy that executes,
\* followed at once by a sell of the same quantity, puts cashBalance and
\* shares back to exactly their values before the buy.
C4_RoundTrip == \A text \in TradeInputs : RoundTrip(Game, text)

\* the state a new game object loads from what saveState writes now
Restored == constructor(saveState(Game).storage, now)

\* C5: save followed by load gives back the same cashBalance, shares,
\* currentPrice, previousPrice, lastUpdate and log entries, in every reachable
\* state.
C5_SaveLoad ==
    /\ Restored.cashBalance = cashBalance
    /\ Restored.shares = shares
    /\ Restored.currentPrice = currentPrice
    /\ Restored.previousPrice = previousPrice
    /\ Restored.lastUpdate = lastUpdate
    /\ Restored.transactionHistory = transactionHistory

InBand(p) == NumGe(p, Int2Num(MinPrice)) /\ NumLe(p, Int2Num(MaxPrice))

\* the response holds a quote the adapter can use
Usable(q) ==
    q.net /\ q.ok /\ q.json /\ q.result /\ q.meta /\ UsableQuote(ExtractQuote(q))

Normalized(r) == PriceInJPY(ExtractQuote(r.quote), r.quote.currency, r.fx)

\* C6: the adapter returns a price only for a usable quote whose value in
\* yen lies in [15000, 60000], and the price it returns lies in that band;
\* for a failure or a value outside the band it returns no update, and the
\* ledger takes exactly the returned price.
C6_InBand ==
    (last.op = "fetch" /\ last.resp # Null) =>
        /\ last.ret # Null =>
               /\ Usable(last.resp.quote)
               /\ InBand(Normalized(last.resp))
               /\ InBand(last.ret)
               /\ currentPrice = last.ret
        /\ (~Usable(last.resp.quote) \/ ~InBand(Normalized(last.resp))) =>
               last.ret = Null

\* a quote of 70000 yen was answered with no update
C6_Witness ==
    /\ last.op = "fetch"
    /\ last.resp # Null
    /\ last.resp.quote = JpyQuote(70000000)
    /\ last.ret = Null
    /\ currentPrice # Zero

C7_Step ==
    /\ (last'.op = "fetch" /\ last'.ret = Null) =>
           IF currentPrice # Zero
           THEN UNCHANGED <<currentPrice, previousPrice, lastUpdate>>
           ELSE /\ currentPrice' = SeedPriceNum
                /\ previousPrice' = SeedPriceNum
                /\ lastUpdate' = Null
    /\ (currentPrice' # currentPrice /\ last'.op # "start") =>
           /\ last'.op = "fetch"
           /\ \/ last'.ret # Null /\ currentPrice' = last'.ret
              \/ last'.ret = Null /\ currentPrice = Zero

\* C7: a fetch that ends without an update leaves currentPrice, previousPrice
\* and lastUpdate alone when a price is present, and sets both prices to
\* 39000, lastUpdate staying unset, when none is; within a session nothing
\* but a returned price or that seed changes currentPrice.
C7_NoUpdate == [][C7_Step]_vars

\* a fetch failed after a price had been validated
C7_Witness == last.op = "fetch" /\ last.ret = Null /\ lastUpdate # Null

C8_Ordered ==
    \A i \in 1..(Len(transactionHistory) - 1) :
        transactionHistory[i].timestamp.time
            >= transactionHistory[i + 1].timestamp.time

C8_Step ==
    (last'.op \in {"buy", "sell"} /\ last'.outcome = "ok") =>
        /\ Len(transactionHistory') > 0
        /\ transactionHistory'[1].type = last'.op
        /\ transactionHistory'[1].amount = last'.arg
        /\ transactionHistory'[1].timestamp = Date(now')
        /\ IF Len(transactionHistory) = MaxHistory
           THEN /\ Len(transactionHistory') = MaxHistory
                /\ \A i \in 1..(MaxHistory - 1) :
                       transactionHistory'[i + 1] = transactionHistory[i]
           ELSE Tail(transactionHistory') = transactionHistory

\* C8: the log never holds more than 50 entries and is ordered newest first;
\* an executed order puts its entry first and keeps the entries before it in
\* order, and on a log of 50 exactly the oldest entry is dropped.
C8_LogBound ==
    /\ [](Len(transactionHistory) <= MaxHistory /\ C8_Ordered)
    /\ [][C8_Step]_vars

\* an order was logged on a full log: the oldest entry of the earlier session
\* is gone
C8_Witness ==
    /\ last.op \in {"buy", "sell"}
    /\ last.outcome = "ok"
    /\ Len(transactionHistory) = MaxHistory
    /\ transactionHistory[MaxHistory].timestamp.time > 1 - EarlierTrades

C9_Step ==
    last'.op = "reset" =>
        IF last'.outcome = "confirmed"
        THEN /\ cashBalance' = InitialCashNum
             /\ shares' = 0
             /\ transactionHistory' = <<>>
        ELSE UNCHANGED <<currentPrice, previousPrice, cashBalance, shares,
                         transactionHistory, lastUpdate, storage, inflight>>

\* C9: a confirmed reset yields cash 1000000, no shares and an empty log
\* whatever the state before, also with a fetch in flight; a declined reset
\* changes nothing.
C9_Reset == [][C9_Step]_vars

\* a reset was confirmed with shares held and a fetch in flight
C9_Witness ==
    /\ last.op = "reset"
    /\ last.outcome = "confirmed"
    /\ last.shares0 > 0
    /\ inflight > 0

\* C10 as claimed: after a confirmed reset the whole state is the default,
\* the prices 0 and lastUpdate unset included.
C10_ResetAll ==
    (last.op = "reset" /\ last.outcome = "confirmed") =>
        /\ cashBalance = InitialCashNum
        /\ shares = 0
        /\ transactionHistory = <<>>
        /\ currentPrice = Zero
        /\ previousPrice = Zero
        /\ lastUpdate = Null

C10_Step ==
    (last'.op = "reset" /\ last'.outcome = "confirmed") =>
        /\ cashBalance' = InitialCashNum
        /\ shares' = 0
        /\ transactionHistory' = <<>>
        /\ UNCHANGED <<currentPrice, previousPrice, lastUpdate>>
        /\ storage' = Stringify(Game')

\* C10 amended: a confirmed reset sets cash to 1000000, shares to 0 and the
\* log to empty, leaves currentPrice, previousPrice and lastUpdate as they
\* were, and stores the result.
C10_ResetKeepsPrice == [][C10_Step]_vars

\* a reset was confirmed after a price had been validated
C10_Witness ==
    /\ last.op = "reset"
    /\ last.outcome = "confirmed"
    /\ currentPrice # Zero
    /\ lastUpdate # Null

\* the state of a game object before anything is loaded or done
Defaults ==
    /\ cashBalance = InitialCashNum
    /\ shares = 0
    /\ transactionHistory = <<>>
    /\ currentPrice = Zero
    /\ previousPrice = Zero
    /\ lastUpdate = Null

\* C11: between handlers the stored blob holds the cashBalance, shares, log,
\* currentPrice, previousPrice and lastUpdate of the game object, whatever
\* changed them last, the seeding of the first observation included (with
\* nothing stored yet, the object is still in its defaults).
C11_Persisted ==
    IF storage = Null THEN Defaults ELSE storage = Stringify(Game)

\* the value a field has after loadState, as a JSON value
After(name, default) ==
    IF last.ret[name] = Kept THEN default ELSE last.ret[name]

\* a stored field is well formed: a Number, or a sequence of entries for the log
WellFormedNum(j) == IsNum(j)
WellFormedLog(j) ==
    IsArr(j) /\ \A i \in 1..Len(j.arr) : IsEntry(j.arr[i])

\* a Number field is restored if well formed, and is its default otherwise
FieldLoaded(name, default) ==
    LET j == Prop(storage, name)
    IN  After(name, default) = IF WellFormedNum(j) THEN j ELSE default

\* C12: loadState restores each well-formed field and gives every absent or
\* malformed field its own default (cash 1000000, shares 0, empty log, price
\* 0); when the processing of the blob fails as a whole, every field has its
\* default, so the log is a sequence of entries in every loaded state.
C12_LoadFallback ==
    last.op = "load" =>
        /\ FieldLoaded("cashBalance", JNum(InitialCashNum))
        /\ FieldLoaded("shares", JNum(Zero))
        /\ FieldLoaded("currentPrice", JNum(Zero))
        /\ FieldLoaded("previousPrice", JNum(Zero))
        /\ WellFormedLog(After("transactionHistory", JArr(<<>>)))
        /\ ~WellFormedLog(Prop(storage, "transactionHistory")) =>
               After("transactionHistory", JArr(<<>>)) = JArr(<<>>)
        /\ last.outcome = "caught" =>
               /\ cashBalance = InitialCashNum
               /\ currentPrice = Zero
               /\ previousPrice = Zero
               /\ lastUpdate = Null
               /\ After("shares", JNum(Zero)) = JNum(Zero)

\* the rate request was answered with a body that has result[0].meta
Answered(fx) == fx.net /\ fx.ok /\ fx.json /\ fx.result /\ fx.meta

\* C13: the conversion helper returns the fetched rate only if that rate lies
\* in [100, 200], and 150 for every failure, missing rate or rate outside the
\* band; every rate it returns lies in [100, 200], and a dollar quote is
\* converted with exactly that rate.
C13_Rate ==
    (/\ last.op = "fetch" /\ last.resp # Null
     /\ Usable(last.resp.quote) /\ last.resp.quote.currency = "USD") =>
        LET fx == last.resp.fx
            rate == fetchUsdJpyRate(fx)
            fetched == ExtractQuote(fx)
            accepted == /\ Answered(fx)
                        /\ Truthy(fetched)
                        /\ NumGe(fetched, Int2Num(MinRate))
                        /\ NumLe(fetched, Int2Num(MaxRate))
            converted == NumMul(ExtractQuote(last.resp.quote), rate)
        IN  /\ NumGe(rate, Int2Num(MinRate)) /\ NumLe(rate, Int2Num(MaxRate))
            /\ rate = IF accepted THEN fetched ELSE Int2Num(FallbackRate)
            /\ last.ret = IF InBand(converted) THEN RoundPrice(converted)
                          ELSE Null

\* a rate of 200.5 was answered with 150: 260 dollars became 39000 yen
C13_Witness ==
    /\ last.op = "fetch"
    /\ last.resp # Null
    /\ last.resp.quote = UsdQuote(260000)
    /\ last.resp.fx = JpyQuote(200500)
    /\ last.ret = SeedPriceNum
    /\ currentPrice = SeedPriceNum

C14_Step ==
    (last'.op = "fetch" /\ last'.ret # Null) =>
        /\ last'.outcome = "validated"
        /\ currentPrice' = last'.ret
        /\ previousPrice' = IF currentPrice # Zero THEN currentPrice
                            ELSE last'.ret
        /\ now' = now + 1
        /\ lastUpdate' = Date(now')
        /\ storage' = Stringify(Game')

\* C14: a fetch that returns a price p sets previousPrice to the currentPrice
\* before it, or to p when that was 0, sets currentPrice to p and lastUpdate
\* to the time read then, and stores the resulting state.
C14_ApplyPrice == [][C14_Step]_vars

\* a price was validated over a different one
C14_Witness ==
    /\ last.op = "fetch"
    /\ last.ret # Null
    /\ currentPrice = last.ret
    /\ previousPrice # currentPrice
    /\ previousPrice # Zero

\* the answer the order of the checks gives to an order
Answer(op, amount) ==
    IF amount <= 0 THEN "InvalidQuantity"
    ELSE IF currentPrice = Zero THEN "PriceUnavailable"
    ELSE IF op = "buy" /\ NumGt(OrderValue(amount, currentPrice), cashBalance)
    THEN "InsufficientFunds"
    ELSE IF op = "sell" /\ amount > shares THEN "InsufficientShares"
    ELSE "ok"

C15_Step ==
    last'.op \in {"buy", "sell"} =>
        /\ last'.outcome = Answer(last'.op, last'.arg)
        /\ last'.outcome # "ok" =>
               UNCHANGED <<cashBalance, shares, currentPrice, previousPrice,
                           lastUpdate, transactionHistory, storage>>

\* C15: buy and sell check the quantity first (not positive or not a number:
\* InvalidQuantity), then the price (0: PriceUnavailable), then funds or
\* shares; an order that is turned down leaves cashBalance, shares, the
\* prices, lastUpdate, the log and the stored blob as they are.
C15_Rejections == [][C15_Step]_vars

\* a sell of more than held was turned down for the missing price
C15_Witness ==
    /\ last.op = "sell"
    /\ last.outcome = "PriceUnavailable"
    /\ last.arg > shares

C16_Step ==
    /\ last'.op = "fetch" =>
           /\ inflight > 0
           /\ inflight' = inflight - 1
           /\ last'.ret # Null => currentPrice' = last'.ret
           /\ (last'.ret = Null /\ currentPrice # Zero) =>
                  currentPrice' = currentPrice
    /\ last'.op \in {"buy", "sell", "reset", "fetchStart"} =>
           currentPrice' = currentPrice
    /\ last'.op \in {"buy", "sell", "reset"} => inflight' = inflight

\* C16: fetches overlap and are answered in any order, also after a reset;
\* each returned price is applied when its fetch resumes, however many other
\* fetches are in flight, and nothing else moves a price that is present, so
\* with no fetch left in flight currentPrice is the price returned last; cash
\* and shares stay non-negative and the log within 50 entries throughout.
C16_LastApplied ==
    /\ [][C16_Step]_vars
    /\ [](/\ inflight >= 0
          /\ NumGe(cashBalance, Zero)
          /\ shares >= 0
          /\ Len(transactionHistory) <= MaxHistory)

\* a second price was applied while another fetch was still in flight
C16_Witness ==
    /\ last.op = "fetch"
    /\ last.ret # Null
    /\ currentPrice = last.ret
    /\ inflight > 0
    /\ previousPrice # Zero
    /\ previousPrice # currentPrice

\* the entries of the log before an order, as the log keeps them after it
KeptEntries(h) ==
    IF Len(h) = MaxHistory THEN SubSeq(h, 1, MaxHistory - 1) ELSE h

C17_Entries ==
    \A i \in 1..Len(transactionHistory) :
        /\ transactionHistory[i].amount > 0
        /\ transactionHistory[i].price # Zero
        /\ transactionHistory[i].total
               = NumTimes(transactionHistory[i].amount,
                          transactionHistory[i].price)

C17_Step ==
    IF last'.op \in {"buy", "sell"} /\ last'.outcome = "ok"
    THEN /\ Len(transactionHistory') > 0
         /\ transactionHistory'[1].type = last'.op
         /\ transactionHistory'[1].amount = last'.arg
         /\ transactionHistory'[1].price = currentPrice
         /\ currentPrice' = currentPrice
         /\ Tail(transactionHistory') = KeptEntries(transactionHistory)
    ELSE IF last'.op = "reset" /\ last'.outcome = "confirmed"
    THEN transactionHistory' = <<>>
    ELSE transactionHistory' = transactionHistory

\* C17: every entry of the log has an amount > 0, the currentPrice of the
\* moment its order ran (the price before the answer of a fetch in flight) and
\* total = amount * price; no later price, order, save or load changes an
\* entry, and entries leave the log only by the trim or by a reset.
C17_EntriesFixed == []C17_Entries /\ [][C17_Step]_vars

\* a price arrived after an order of this session and left its entry alone
C17_Witness ==
    /\ last.op = "fetch"
    /\ last.ret # Null
    /\ Len(transactionHistory) = MaxHistory
    /\ transactionHistory[1].timestamp.time > 0
    /\ transactionHistory[1].price # currentPrice

RECURSIVE SumTotals(_, _)
\* the totals of the entries of one type, added up from the oldest on
SumTotals(h, type) ==
    IF h = <<>> THEN Zero
    ELSE LET older == SumTotals(Tail(h), type)
         IN  IF Head(h).type = type THEN NumAdd(older, Head(h).total)
             ELSE older

RECURSIVE SumAmounts(_, _)
SumAmounts(h, type) ==
    IF h = <<>> THEN 0
    ELSE SumAmounts(Tail(h), type)
         + (IF Head(h).type = type THEN Head(h).amount ELSE 0)

\* C18: with no entry trimmed, cashBalance is 1000000 less the totals of the
\* logged buys plus the totals of the logged sells, and shares is the logged
\* buy amounts less the logged sell amounts, in every reachable state.
C18_Conservation ==
    Len(transactionHistory) < MaxHistory =>
        /\ cashBalance
               = NumAdd(NumSub(InitialCashNum,
                               SumTotals(transactionHistory, "buy")),
                        SumTotals(transactionHistory, "sell"))
        /\ shares = SumAmounts(transactionHistory, "buy")
                    - SumAmounts(transactionHistory, "sell")

C19_Step ==
    last'.op = "fetch" =>
        UNCHANGED <<cashBalance, shares, transactionHistory>>

\* C19: a fetch that completes, with a price, without one or through the
\* catch block, leaves cashBalance, shares and the log as they are: after a
\* reset they stay 1000000, 0 and empty, after an order they keep its effect.
C19_FetchFrame == [][C19_Step]_vars

\* a price arrived after a buy and the catch block ran
C19_Witness ==
    /\ last.op = "fetch"
    /\ last.outcome = "caught"
    /\ last.ret # Null
    /\ shares > 0
    /\ Len(transactionHistory) > 0

C20_Step ==
    /\ last'.op = "fetch" => NumGt(currentPrice', Zero)
    /\ (NumGt(currentPrice, Zero) /\ last'.op # "start") =>
           NumGt(currentPrice', Zero)
    /\ last'.outcome = "PriceUnavailable" =>
           currentPrice = Zero /\ lastUpdate = Null

\* C20: a fetch that completes, in whatever way, leaves currentPrice > 0, and
\* for the rest of the page session no order, reset or fetch takes it back
\* to 0; an order is answered PriceUnavailable only while currentPrice is
\* still 0, that is before the first fetch of the session has completed.
C20_PriceStays ==
    /\ [][C20_Step]_vars
    /\ [](NumGe(currentPrice, Zero))

\* after a first fetch that failed, an order with something stored already
\* was not turned down for the price
C20_Witness ==
    /\ last.op \in {"buy", "sell"}
    /\ last.arg > 0
    /\ last.outcome # "PriceUnavailable"
    /\ currentPrice = SeedPriceNum
    /\ lastUpdate = Null
    /\ storage # Null

====
